---- MODULE Spec2Model ----
(***************************************************************************)
(* A model of generate_repo_info.py: the README section splitter, the      *)
(* fuzzy section resolver, the whitespace / sentence / example normalizers *)
(* and the loop of main() that builds the summaries mapping.               *)
(*                                                                         *)
(* A Python str is a sequence of one-character strings.  None is the       *)
(* model value None.  A float similarity ratio is the exact fraction       *)
(* <<numerator, denominator>>; the thresholds 0.5, 0.9 and 0.3 are the     *)
(* fractions 1/2, 9/10 and 3/10 (for the string lengths of the model the   *)
(* float comparison and the exact comparison agree).                       *)
(***************************************************************************)
EXTENDS Integers, Sequences, FiniteSets, TLC

VARIABLES
    pc,               \* control position of the specification being run
    fragment,         \* parse_whitespace: the fragment first passed in
    s,                \* parse_whitespace: the current value of s
    applied,          \* parse_whitespace: how many times it has been applied
    readme_content,   \* extract_sections: its argument
    sections,         \* the Section Map (an OrderedDict: a sequence of entries)
    skill_name,       \* find_title_info: its skill_name argument
    title_info,       \* find_title_info: the returned tuple
    name,             \* find_secton: its name argument
    min_conf,         \* find_secton: its min_conf argument
    found,            \* find_secton: the returned value
    candidates,       \* find_examples: the returned list
    example,          \* parse_example: its argument
    utterance,        \* parse_example: the returned value
    skills,           \* main: MycroftSkillsManager(repo).list()
    idx,              \* main: position of the for loop in skills
    summaries         \* main: the summaries dict

vars == <<pc, fragment, s, applied, readme_content, sections, skill_name,
          title_info, name, min_conf, found, candidates, example, utterance,
          skills, idx, summaries>>

wsVars == <<fragment, s, applied>>
secVars == <<readme_content, skill_name, title_info>>
resVars == <<name, min_conf, found>>
exVars == <<candidates, example, utterance>>
mainVars == <<skills, idx, summaries>>

\* Optional[str]: None, or Some(x) for a str x (the empty str included)
None == [none |-> TRUE]
Some(x) == [value |-> x]
\* opt or default: None and the empty str are both falsy
OrElse(opt, default) ==
    IF opt = None THEN default
    ELSE IF opt.value = <<>> THEN default
    ELSE opt.value

Idle == "idle"

-----------------------------------------------------------------------------
(* Characters and the str methods the program uses. *)

NL == "\n"
SP == " "
\* the backtick, a character no TLA+ string literal can hold
Backtick == "backtick"

\* str.lower() and str.upper() of one cased character
ToLower ==
    "A" :> "a" @@ "B" :> "b" @@ "C" :> "c" @@ "D" :> "d" @@ "E" :> "e" @@
    "F" :> "f" @@ "G" :> "g" @@ "H" :> "h" @@ "I" :> "i" @@ "J" :> "j" @@
    "K" :> "k" @@ "L" :> "l" @@ "M" :> "m" @@ "N" :> "n" @@ "O" :> "o" @@
    "P" :> "p" @@ "Q" :> "q" @@ "R" :> "r" @@ "S" :> "s" @@ "T" :> "t" @@
    "U" :> "u" @@ "V" :> "v" @@ "W" :> "w" @@ "X" :> "x" @@ "Y" :> "y" @@
    "Z" :> "z"
ToUpper ==
    "a" :> "A" @@ "b" :> "B" @@ "c" :> "C" @@ "d" :> "D" @@ "e" :> "E" @@
    "f" :> "F" @@ "g" :> "G" @@ "h" :> "H" @@ "i" :> "I" @@ "j" :> "J" @@
    "k" :> "K" @@ "l" :> "L" @@ "m" :> "M" @@ "n" :> "N" @@ "o" :> "O" @@
    "p" :> "P" @@ "q" :> "Q" @@ "r" :> "R" @@ "s" :> "S" @@ "t" :> "T" @@
    "u" :> "U" @@ "v" :> "V" @@ "w" :> "W" @@ "x" :> "X" @@ "y" :> "Y" @@
    "z" :> "Z"

Digits == {"0","1","2","3","4","5","6","7","8","9"}

IsUpper(c) == c \in DOMAIN ToLower
IsLower(c) == c \in DOMAIN ToUpper
IsAlpha(c) == IsUpper(c) \/ IsLower(c)
IsAlnum(c) == IsAlpha(c) \/ c \in Digits

\* str.isspace for one character
Whitespace == {" ", "\n", "\t", "\r"}

LowerChar(c) == IF IsUpper(c) THEN ToLower[c] ELSE c
UpperChar(c) == IF IsLower(c) THEN ToUpper[c] ELSE c

RECURSIVE Lower(_)
\* str.lower()
Lower(x) == IF x = <<>> THEN <<>> ELSE <<LowerChar(Head(x))>> \o Lower(Tail(x))

RECURSIVE TitleFrom(_, _)
\* x from position i on, title-cased
TitleFrom(x, i) ==
    IF i > Len(x) THEN <<>>
    ELSE <<IF i = 1 \/ ~IsAlpha(x[i - 1]) THEN UpperChar(x[i]) ELSE LowerChar(x[i])>>
         \o TitleFrom(x, i + 1)

\* str.title(): a letter is upper-cased after a non-letter (or at the start),
\* lower-cased after a letter
Title(x) == TitleFrom(x, 1)

RECURSIVE ReplaceChar(_, _, _)
\* str.replace(old, new) for one-character old and new
ReplaceChar(x, old, new) ==
    IF x = <<>> THEN <<>>
    ELSE <<IF Head(x) = old THEN new ELSE Head(x)>> \o ReplaceChar(Tail(x), old, new)

\* str.startswith(prefix)
StartsWith(x, prefix) ==
    /\ Len(prefix) <= Len(x)
    /\ SubSeq(x, 1, Len(prefix)) = prefix

\* x[n:]
From(x, n) == SubSeq(x, n + 1, Len(x))

RECURSIVE LStrip(_, _)
\* str.lstrip(chars)
LStrip(x, chars) ==
    IF x # <<>> /\ Head(x) \in chars THEN LStrip(Tail(x), chars) ELSE x

RECURSIVE RStrip(_, _)
\* str.rstrip(chars)
RStrip(x, chars) ==
    IF x # <<>> /\ x[Len(x)] \in chars
    THEN RStrip(SubSeq(x, 1, Len(x) - 1), chars)
    ELSE x

\* str.strip(chars); str.strip() is Strip(x, Whitespace)
Strip(x, chars) == RStrip(LStrip(x, chars), chars)

RECURSIVE SplitAt(_, _, _)
\* the pieces of x between the characters of seps, the piece being built in cur
SplitAt(x, seps, cur) ==
    IF x = <<>> THEN <<cur>>
    ELSE IF Head(x) \in seps THEN <<cur>> \o SplitAt(Tail(x), seps, <<>>)
    ELSE SplitAt(Tail(x), seps, Append(cur, Head(x)))

\* str.split('\n')
SplitLines(x) == SplitAt(x, {NL}, <<>>)

\* str.split(): the maximal runs of non-whitespace characters
SplitWords(x) == SelectSeq(SplitAt(x, Whitespace, <<>>), LAMBDA w : w # <<>>)

-----------------------------------------------------------------------------
(* parse_whitespace, lines 97-101 *)

\* SoftBreaksToSpaces with the lookarounds forgotten: every newline is replaced
SoftBreaksToSpaces_all(x) == ReplaceChar(x, NL, SP)

RECURSIVE SoftBreaksFrom(_, _)
\* x from position i on, each newline that has no newline beside it replaced
SoftBreaksFrom(x, i) ==
    IF i > Len(x) THEN <<>>
    ELSE <<IF /\ x[i] = NL
              /\ (i = 1 \/ x[i - 1] # NL)
              /\ (i = Len(x) \/ x[i + 1] # NL)
           THEN SP ELSE x[i]>> \o SoftBreaksFrom(x, i + 1)

\* re.sub(r'(?<!\n)\n(?!\n)', ' ', s): the lookarounds read the original string
SoftBreaksToSpaces(x) == SoftBreaksFrom(x, 1)

RECURSIVE CollapseFrom(_, _, _)
\* x from position i on, a character c dropped where it follows another c
CollapseFrom(x, c, i) ==
    IF i > Len(x) THEN <<>>
    ELSE IF x[i] = c /\ i > 1 /\ x[i - 1] = c THEN CollapseFrom(x, c, i + 1)
    ELSE <<x[i]>> \o CollapseFrom(x, c, i + 1)

\* re.sub(r'c+', 'c', x)
CollapseRuns(x, c) == CollapseFrom(x, c, 1)

parse_whitespace(x) ==
    CollapseRuns(CollapseRuns(SoftBreaksToSpaces(x), NL), SP)

-----------------------------------------------------------------------------
(* Bounded strings *)

RECURSIVE StringsOver(_, _)
\* every string over alphabet of length at most n
StringsOver(alphabet, n) ==
    IF n = 0 THEN {<<>>}
    ELSE LET shorter == StringsOver(alphabet, n - 1)
         IN  shorter \cup {Append(x, c) : x \in shorter, c \in alphabet}

-----------------------------------------------------------------------------
(* The whitespace normalizer applied to a fragment, and applied again. *)

MaxFragmentLen == 5
MaxApplied == 2
FragmentAlphabet == {"a", SP, NL}

InitOthersWS ==
    /\ readme_content = <<>> /\ sections = <<>> /\ skill_name = <<>>
    /\ title_info = None /\ name = <<>> /\ min_conf = <<0, 1>> /\ found = None
    /\ candidates = <<>> /\ example = <<>> /\ utterance = None
    /\ skills = <<>> /\ idx = 0 /\ summaries = <<>>

InitWhitespace ==
    /\ pc = Idle
    /\ fragment \in StringsOver(FragmentAlphabet, MaxFragmentLen)
    /\ s = fragment
    /\ applied = 0
    /\ InitOthersWS

ParseWhitespace ==
    /\ applied < MaxApplied
    /\ s' = parse_whitespace(s)
    /\ applied' = applied + 1
    /\ UNCHANGED <<pc, fragment, sections, secVars, resVars, exVars, mainVars>>

NextWhitespace == ParseWhitespace

SpecWhitespace == InitWhitespace /\ [][NextWhitespace]_vars

\* a run of two or more newlines
HasParagraphBreak(x) == \E i \in 1..(Len(x) - 1) : x[i] = NL /\ x[i + 1] = NL

\* a single newline, adjacent to no other newline
HasSoftBreak(x) == SoftBreaksToSpaces(x) # x

\* C1 as stated: parse_whitespace is idempotent, the second application
\* returns what the first returned, for every fragment of letters, spaces
\* and newlines (soft breaks mixed with paragraph breaks included).
C1_Idempotent == [][applied = 1 => s' = s]_vars

\* C1 amended: the second application of parse_whitespace returns what the
\* first returned exactly when the fragment holds no paragraph break (no run
\* of two or more newlines); a paragraph break is collapsed to one newline by
\* the first application and that newline is turned into a space by the second.
C1_IdempotentIffNoParagraphBreak ==
    [][applied = 1 => ((s' = s) <=> ~HasParagraphBreak(fragment))]_vars

\* a fragment mixing a soft break with a paragraph break, normalized twice
C1_Witness ==
    /\ applied = 2
    /\ HasParagraphBreak(fragment) /\ HasSoftBreak(fragment)
    /\ s # parse_whitespace(fragment)

-----------------------------------------------------------------------------
(* The Section Map: an OrderedDict from heading label to body, modelled as *)
(* the sequence of its entries in iteration order.                         *)

Keys(d) == {d[i].title : i \in DOMAIN d}

\* d[key], for a key of d
GetItem(d, key) == d[CHOOSE i \in DOMAIN d : d[i].title = key].body

\* d[key] = value: an existing key keeps its place, a new key goes last
SetItem(d, key, value) ==
    IF key \in Keys(d)
    THEN LET i == CHOOSE k \in DOMAIN d : d[k].title = key
         IN  [d EXCEPT ![i] = [title |-> key, body |-> value]]
    ELSE Append(d, [title |-> key, body |-> value])

\* d.pop(key), the dict that is left
Pop(d, key) == SelectSeq(d, LAMBDA e : e.title # key)

-----------------------------------------------------------------------------
(* extract_sections, lines 68-81 *)

Preamble == <<>>

\* line 73: line.startswith('#')
IsHeadingLine(line) == line # <<>> /\ Head(line) = "#"

\* line 74: line.strip('# ')
HeadingLabel(line) == Strip(line, {"#", " "})

RECURSIVE ScanLines(_, _, _, _)
\* lines 71-77: the loop over the lines, from line i on
ScanLines(lines, i, last_section, d) ==
    IF i > Len(lines) THEN d
    ELSE LET line == Strip(lines[i], Whitespace)
         IN  IF IsHeadingLine(line)
             THEN ScanLines(lines, i + 1, HeadingLabel(line),
                            SetItem(d, HeadingLabel(line), <<>>))
             ELSE ScanLines(lines, i + 1, last_section,
                            SetItem(d, last_section,
                                    GetItem(d, last_section) \o <<NL>> \o line))

RECURSIVE StripBodies(_)
\* lines 78-79: every body stripped
StripBodies(d) ==
    IF d = <<>> THEN <<>>
    ELSE <<[title |-> Head(d).title, body |-> Strip(Head(d).body, Whitespace)]>>
         \o StripBodies(Tail(d))

\* ShiftToEnd with the shift forgotten
ShiftToEnd_none(d) == d

\* line 80: sections[''] = sections.pop('')
ShiftToEnd(d) == SetItem(Pop(d, Preamble), Preamble, GetItem(d, Preamble))

extract_sections(content) ==
    ShiftToEnd(StripBodies(
        ScanLines(SplitLines(content), 1, Preamble,
                  <<[title |-> Preamble, body |-> <<>>]>>)))

-----------------------------------------------------------------------------
(* compare, lines 84-85: difflib.SequenceMatcher(a, b).ratio() without junk *)
(* (autojunk only acts on a b of 200 characters or more).                  *)

RECURSIVE RunLen(_, _, _, _)
\* the length of the common run of a from i and b from j
RunLen(a, b, i, j) ==
    IF i > Len(a) \/ j > Len(b) THEN 0
    ELSE IF a[i] # b[j] THEN 0
    ELSE 1 + RunLen(a, b, i + 1, j + 1)

Max(S) == CHOOSE m \in S : \A n \in S : n <= m
Min(S) == CHOOSE m \in S : \A n \in S : m <= n

\* find_longest_match: the longest matching block <<i, j, size>>; of the longest,
\* the one starting earliest in a, and of those the one starting earliest in b
LongestMatch(a, b) ==
    LET size == Max({RunLen(a, b, i, j) : i \in 1..Len(a), j \in 1..Len(b)} \cup {0})
    IN  IF size = 0 THEN <<1, 1, 0>>
        ELSE LET i == Min({x \in 1..Len(a) : \E y \in 1..Len(b) : RunLen(a, b, x, y) = size})
                 j == Min({y \in 1..Len(b) : RunLen(a, b, i, y) = size})
             IN  <<i, j, size>>

RECURSIVE MatchCount(_, _)
\* get_matching_blocks: the characters matched, the longest block first and then
\* the pieces to its left and to its right
MatchCount(a, b) ==
    IF a = <<>> \/ b = <<>> THEN 0
    ELSE LET m == LongestMatch(a, b)
         IN  IF m[3] = 0 THEN 0
             ELSE m[3]
                  + MatchCount(SubSeq(a, 1, m[1] - 1), SubSeq(b, 1, m[2] - 1))
                  + MatchCount(SubSeq(a, m[1] + m[3], Len(a)), SubSeq(b, m[2] + m[3], Len(b)))

\* ratio(): 2.0 * matches / length, and 1.0 for two empty strings
Ratio(a, b) ==
    IF Len(a) + Len(b) = 0 THEN <<1, 1>>
    ELSE <<2 * MatchCount(a, b), Len(a) + Len(b)>>

compare(a, b) == Ratio(Lower(a), Lower(b))

\* p < q and p >= q for fractions with positive denominators
Less(p, q) == p[1] * q[2] < q[1] * p[2]
AtLeast(p, q) == ~Less(p, q)

\* norm, lines 88-89
norm(x) == ReplaceChar(Lower(x), "-", " ")

\* caps, lines 111-113
caps(x) == IF x = <<>> THEN x ELSE <<UpperChar(Head(x))>> \o Tail(x)

-----------------------------------------------------------------------------
(* find_secton, lines 92-94 *)

DefaultMinConf == <<1, 2>>
StrictMinConf == <<9, 10>>

RECURSIVE FirstMax(_, _, _, _)
\* max(..., key=lambda x: x[1]) over the entries from i on, best being the
\* position of the first entry with the highest ratio so far
FirstMax(d, field, i, best) ==
    IF i > Len(d) THEN best
    ELSE IF Less(compare(d[best].title, field), compare(d[i].title, field))
    THEN FirstMax(d, field, i + 1, i)
    ELSE FirstMax(d, field, i + 1, best)

\* find_secton with <= in place of <: a ratio equal to min_conf is refused
find_secton_le(field, d, conf) ==
    LET best == FirstMax(d, field, 2, 1)
    IN  IF ~Less(conf, compare(d[best].title, field))
        THEN None
        ELSE Some(d[best].body)

\* find_secton that never refuses the best heading
find_secton_any(field, d, conf) == Some(d[FirstMax(d, field, 2, 1)].body)

find_secton(field, d, conf) ==
    LET best == FirstMax(d, field, 2, 1)
    IN  IF Less(compare(d[best].title, field), conf)
        THEN None
        ELSE Some(d[best].body)

-----------------------------------------------------------------------------
(* find_title_info, lines 142-147 *)

TitleMinConf == <<3, 10>>

\* find_title_info with > in place of >=
find_title_info_gt(d, target) ==
    LET title_section == d[1].title
    IN  IF Less(TitleMinConf, compare(norm(title_section), norm(target)))
        THEN <<caps(title_section), GetItem(d, title_section)>>
        ELSE <<Title(norm(target)), GetItem(d, Preamble)>>

find_title_info(d, target) ==
    LET title_section == d[1].title
    IN  IF AtLeast(compare(norm(title_section), norm(target)), TitleMinConf)
        THEN <<caps(title_section), GetItem(d, title_section)>>
        ELSE <<Title(norm(target)), GetItem(d, Preamble)>>

-----------------------------------------------------------------------------
(* README documents: up to MaxLines lines joined by newlines. *)

MaxLines == 4

Str_Weather == <<"W","e","a","t","h","e","r">>
Str_Overview == <<"O","v","e","r","v","i","e","w">>
Str_weather_skill == <<"w","e","a","t","h","e","r","-","s","k","i","l","l">>
Str_audio_record == <<"a","u","d","i","o","-","r","e","c","o","r","d">>
Str_rain == <<"r","a","i","n">>
Str_sun == <<"s","u","n">>

ReadmeLines ==
    { <<"#", " ">> \o Str_Weather,
      <<" ", "#", "#", " ">> \o Str_Overview \o <<" ", "#", "#">>,
      <<"#">>,
      Str_rain,
      <<" ">> \o Str_sun \o <<" ">>,
      <<>> }

SkillNames == {Str_weather_skill, Str_audio_record}

RECURSIVE JoinLines(_)
\* '\n'.join(lines)
JoinLines(lines) ==
    IF Len(lines) = 1 THEN lines[1]
    ELSE lines[1] \o <<NL>> \o JoinLines(Tail(lines))

RECURSIVE LineSeqs(_, _)
\* the sequences of 1 to n lines
LineSeqs(lineSet, n) ==
    IF n = 1 THEN {<<l>> : l \in lineSet}
    ELSE LET shorter == LineSeqs(lineSet, n - 1)
         IN  shorter \cup {Append(ls, l) : ls \in shorter, l \in lineSet}

Readmes == {JoinLines(ls) : ls \in LineSeqs(ReadmeLines, MaxLines)}

InitSections ==
    /\ pc = "start"
    /\ readme_content \in Readmes
    /\ skill_name \in SkillNames
    /\ sections = <<>>
    /\ title_info = None
    /\ fragment = <<>> /\ s = <<>> /\ applied = 0
    /\ name = <<>> /\ min_conf = <<0, 1>> /\ found = None
    /\ candidates = <<>> /\ example = <<>> /\ utterance = None
    /\ skills = <<>> /\ idx = 0 /\ summaries = <<>>

\* generate_summary line 157
ExtractSections ==
    /\ pc = "start"
    /\ sections' = extract_sections(readme_content)
    /\ pc' = "extracted"
    /\ UNCHANGED <<wsVars, secVars, resVars, exVars, mainVars>>

\* generate_summary line 158
FindTitleInfo ==
    /\ pc = "extracted"
    /\ title_info' = find_title_info(sections, skill_name)
    /\ pc' = "titled"
    /\ UNCHANGED <<wsVars, readme_content, skill_name, sections, resVars, exVars, mainVars>>

NextSections == ExtractSections \/ FindTitleInfo

SpecSections == InitSections /\ [][NextSections]_vars

-----------------------------------------------------------------------------
(* What the document says, read line by line. *)

RECURSIVE StripEach(_)
\* the lines, each stripped of surrounding whitespace
StripEach(lines) ==
    IF lines = <<>> THEN <<>>
    ELSE <<Strip(Head(lines), Whitespace)>> \o StripEach(Tail(lines))

DocLines(content) == StripEach(SplitLines(content))

\* the positions of the heading lines
HeadingPositions(lines) == {i \in DOMAIN lines : IsHeadingLine(lines[i])}

\* the label of the heading line that governs line i: the last heading line
\* before it, the preamble when there is none
GoverningLabel(lines, i) ==
    LET before == {h \in HeadingPositions(lines) : h < i}
    IN  IF before = {} THEN Preamble ELSE HeadingLabel(lines[Max(before)])

RECURSIVE BodyUnder(_, _, _)
\* the non-heading lines from line i on that a heading labelled label governs,
\* each preceded by a newline
BodyUnder(lines, label, i) ==
    IF i > Len(lines) THEN <<>>
    ELSE IF ~IsHeadingLine(lines[i]) /\ GoverningLabel(lines, i) = label
    THEN <<NL>> \o lines[i] \o BodyUnder(lines, label, i + 1)
    ELSE BodyUnder(lines, label, i + 1)

\* the trimmed, newline-joined lines under the heading lines labelled label
ContentUnder(lines, label) == Strip(BodyUnder(lines, label, 1), Whitespace)

\* the label of the first heading line, the preamble label when there is none
FirstHeading(lines) ==
    IF HeadingPositions(lines) = {} THEN Preamble
    ELSE HeadingLabel(lines[Min(HeadingPositions(lines))])

\* the label of the first heading line whose label is not empty, the preamble
\* label when there is none
FirstLabelledHeading(lines) ==
    LET labelled == {h \in HeadingPositions(lines) : HeadingLabel(lines[h]) # <<>>}
    IN  IF labelled = {} THEN Preamble ELSE HeadingLabel(lines[Min(labelled)])

\* what find_title_info is said to return when title_section is the heading taken
TitleInfoOf(title_section) ==
    IF AtLeast(compare(norm(title_section), norm(skill_name)), <<3, 10>>)
    THEN <<caps(title_section), GetItem(sections, title_section)>>
    ELSE <<Title(norm(skill_name)), GetItem(sections, Preamble)>>

-----------------------------------------------------------------------------

\* C2: the Section Map returned by extract_sections holds exactly one entry
\* whose key is the empty string, and that entry is the last in iteration order.
C2_PreambleOnceAndLast ==
    pc # "start" =>
        /\ Cardinality({i \in DOMAIN sections : sections[i].title = Preamble}) = 1
        /\ sections[Len(sections)].title = Preamble

\* a document with a marker-only heading line, a repeated heading label and
\* text before the first heading, split into sections
C2_Witness ==
    LET lines == DocLines(readme_content)
    IN  /\ pc = "extracted"
        /\ \E h \in HeadingPositions(lines) : HeadingLabel(lines[h]) = <<>>
        /\ \E g, h \in HeadingPositions(lines) :
              g < h /\ HeadingLabel(lines[g]) = HeadingLabel(lines[h])
                    /\ HeadingLabel(lines[g]) # <<>>
        /\ ~IsHeadingLine(lines[1]) /\ lines[1] # <<>>
        /\ Len(sections) = 2

\* C5 as stated: find_title_info takes the first heading of the document (the
\* preamble label only when the document has no heading line) and returns
\* (capitalized heading, its body) when its ratio with the target name is at
\* least 0.3, otherwise (title-cased target name, preamble body).
C5_FirstHeadingTitles ==
    pc = "titled" => title_info = TitleInfoOf(FirstHeading(DocLines(readme_content)))

\* C5 amended: find_title_info takes the first heading of the document whose
\* label is not empty (the preamble label when no heading line has a label:
\* a marker-only heading line is passed over), and returns (capitalized
\* heading, the body the Section Map holds for it) when its ratio with the
\* target name is at least 0.3, otherwise (title-cased target name, preamble
\* body); a document with no heading line gets the title-cased target name.
C5_FirstLabelledHeadingTitles ==
    pc = "titled" =>
        LET lines == DocLines(readme_content)
        IN  /\ title_info = TitleInfoOf(FirstLabelledHeading(lines))
            /\ HeadingPositions(lines) = {} => title_info[1] = Title(norm(skill_name))

\* a document whose first labelled heading has ratio exactly 0.3 with the
\* target name and comes after a marker-only heading line: it is the title
C5_Witness ==
    LET lines == DocLines(readme_content)
    IN  /\ pc = "titled"
        /\ FirstHeading(lines) = <<>> /\ HeadingPositions(lines) # {}
        /\ FirstLabelledHeading(lines) = Str_Overview
        /\ compare(norm(Str_Overview), norm(skill_name)) = <<6, 20>>
        /\ title_info[1] = Str_Overview

\* C10: extract_sections drops no section content: every heading line's label
\* is a key of the Section Map, and the body under a label is the trimmed,
\* newline-joined sequence of all the non-heading lines that follow a heading
\* line with that label up to the next heading line (for the preamble: the
\* lines before the first heading line), repeated and marker-only headings
\* included.
C10_NoContentDropped ==
    pc # "start" =>
        LET lines == DocLines(readme_content)
        IN  /\ \A h \in HeadingPositions(lines) : HeadingLabel(lines[h]) \in Keys(sections)
            /\ \A key \in Keys(sections) : GetItem(sections, key) = ContentUnder(lines, key)

-----------------------------------------------------------------------------
(* The resolver on Section Maps: up to MaxHeadings distinct heading labels   *)
(* in any order, the preamble entry last (what extract_sections returns for *)
(* the document that holds these headings in this order).                   *)

MaxHeadings == 3

Str_Usage == <<"U","s","a","g","e">>
Str_Author == <<"A","u","t","h","o","r">>
Str_AU == <<"A","U">>
Str_Au == <<"A","u">>

Str_examples == <<"e","x","a","m","p","l","e","s">>
Str_usage == <<"u","s","a","g","e">>
Str_author == <<"a","u","t","h","o","r">>
Str_description == <<"d","e","s","c","r","i","p","t","i","o","n">>
Str_require == <<"r","e","q","u","i","r","e">>
Str_exclude == <<"e","x","c","l","u","d","e">>

ResolverHeadings == {Str_Usage, Str_Author, Str_Au, Str_AU}
FieldNames == {Str_examples, Str_usage, Str_author, Str_description,
               Str_require, Str_exclude}
MinConfs == {DefaultMinConf, StrictMinConf}

\* the body under a heading: its label after "by ", and nothing under "Au"
BodyFor(label) == IF label = Str_Au THEN <<>> ELSE <<"b", "y", " ">> \o label

AllDistinct(x) == \A i, j \in DOMAIN x : i # j => x[i] # x[j]

RECURSIVE LabelSeqs(_, _)
\* the sequences of at most n distinct labels
LabelSeqs(labels, n) ==
    IF n = 0 THEN {<<>>}
    ELSE LET shorter == LabelSeqs(labels, n - 1)
         IN  shorter \cup
             {x \in {Append(ls, l) : ls \in shorter, l \in labels} : AllDistinct(x)}

RECURSIVE SectionMapOf(_)
\* the Section Map with these headings, the preamble entry last
SectionMapOf(labels) ==
    IF labels = <<>> THEN <<[title |-> Preamble, body |-> <<"h", "i">>]>>
    ELSE <<[title |-> Head(labels), body |-> BodyFor(Head(labels))]>>
         \o SectionMapOf(Tail(labels))

SectionMaps == {SectionMapOf(ls) : ls \in LabelSeqs(ResolverHeadings, MaxHeadings)}

InitResolver ==
    /\ pc = "start"
    /\ sections \in SectionMaps
    /\ name \in FieldNames
    /\ min_conf \in MinConfs
    /\ found = None
    /\ fragment = <<>> /\ s = <<>> /\ applied = 0
    /\ readme_content = <<>> /\ skill_name = <<>> /\ title_info = None
    /\ candidates = <<>> /\ example = <<>> /\ utterance = None
    /\ skills = <<>> /\ idx = 0 /\ summaries = <<>>

FindSecton ==
    /\ pc = "start"
    /\ found' = find_secton(name, sections, min_conf)
    /\ pc' = "found"
    /\ UNCHANGED <<wsVars, secVars, sections, name, min_conf, exVars, mainVars>>

NextResolver == FindSecton

SpecResolver == InitResolver /\ [][NextResolver]_vars

\* the ratio of the field name against the heading of entry i
ConfOf(i) == compare(sections[i].title, name)

\* the entries whose ratio no entry exceeds
MaxEntries == {i \in DOMAIN sections : \A j \in DOMAIN sections : ~Less(ConfOf(i), ConfOf(j))}

\* C3: find_secton returns the body of the heading with the maximum ratio,
\* the earliest in iteration order when several tie, when that ratio is
\* greater than or equal to the threshold, and None exactly when the maximum
\* ratio is strictly below the threshold.
C3_BestHeadingOrNone ==
    pc = "found" =>
        LET first == Min(MaxEntries)
        IN  /\ (found = None) <=> Less(ConfOf(first), min_conf)
            /\ AtLeast(ConfOf(first), min_conf) => found = Some(sections[first].body)

\* two headings tie at the maximum ratio, which is exactly the threshold, and
\* the body of the earlier one is returned, an empty body (which is not None)
C3_Witness ==
    /\ pc = "found" /\ name = Str_author /\ min_conf = DefaultMinConf
    /\ Cardinality(MaxEntries) = 2
    /\ ConfOf(Min(MaxEntries)) = <<4, 8>>
    /\ sections[Min(MaxEntries)].body # sections[Max(MaxEntries)].body
    /\ found = Some(sections[Min(MaxEntries)].body)
    /\ found = Some(<<>>)

\* the Section Map of C4: the headings Usage and Author, and the preamble
IsUsageAuthorMap ==
    /\ Len(sections) = 3
    /\ sections[1].title = Str_Usage /\ sections[2].title = Str_Author
    /\ sections[3].title = Preamble

\* C4 as stated: for the field name "examples", the default threshold 0.5 and
\* the headings Usage and Author, find_secton returns the body of Usage: its
\* ratio is greater than 0.5 and greater than that of Author.
C4_ExamplesMatchesUsage ==
    (pc = "found" /\ name = Str_examples /\ min_conf = DefaultMinConf /\ IsUsageAuthorMap)
        => /\ found = Some(sections[1].body)
           /\ Less(DefaultMinConf, ConfOf(1))
           /\ Less(ConfOf(2), ConfOf(1))

\* C4 amended: for the field name "examples", the default threshold 0.5 and
\* the headings Usage and Author, the ratio of "examples" against Usage is
\* 2/13 (one matching character), greater than that against Author (2/14)
\* but below 0.5, so find_secton returns no match (None).
C4_ExamplesMatchesNothing ==
    (pc = "found" /\ name = Str_examples /\ min_conf = DefaultMinConf /\ IsUsageAuthorMap)
        => /\ found = None
           /\ ConfOf(1) = <<2, 13>> /\ ConfOf(2) = <<2, 14>>
           /\ Less(ConfOf(1), DefaultMinConf)
           /\ Less(ConfOf(2), ConfOf(1))

\* find_secton has been applied to "examples", 0.5 and the Usage/Author map
C4_Witness ==
    /\ pc = "found" /\ name = Str_examples /\ min_conf = DefaultMinConf
    /\ IsUsageAuthorMap
    /\ found = None

-----------------------------------------------------------------------------
(* format_sent, lines 104-108 *)

\* format_sent without the test that s is not empty
format_sent_unguarded(x) ==
    LET c == caps(x)
    IN  IF c = <<>> \/ IsAlnum(c[Len(c)]) THEN c \o <<".">> ELSE c

format_sent(x) ==
    LET c == caps(x)
    IN  IF c # <<>> /\ IsAlnum(c[Len(c)]) THEN c \o <<".">> ELSE c

-----------------------------------------------------------------------------
(* parse_example, lines 116-132 *)

Str_hey_mycroft == <<"h","e","y"," ","m","y","c","r","o","f","t">>
Str_mycroft == <<"m","y","c","r","o","f","t">>
Str_hey_dash_mycroft == <<"h","e","y","-","m","y","c","r","o","f","t">>

\* line 121
WakePrefixes == <<Str_hey_mycroft, Str_mycroft, Str_hey_dash_mycroft>>

\* line 127
QuestionWords == {<<"w","h","o">>, <<"w","h","a","t">>, <<"w","h","e","n">>,
                  <<"w","h","e","r","e">>}

\* line 128 as the author meant it: a comma between "d" and "'re"
QuestionSuffixes_seven ==
    {<<"'", "s">>, <<"s">>, <<>>, <<"'", "d">>, <<"d">>, <<"'", "r", "e">>, <<"r", "e">>}

\* line 128: ["'s", "s", "", "'d", "d" "'re", "re"]; Python joins the adjacent
\* literals "d" "'re" into the one suffix "d're"
QuestionSuffixes ==
    {<<"'", "s">>, <<"s">>, <<>>, <<"'", "d">>, <<"d", "'", "r", "e">>, <<"r", "e">>}

RECURSIVE UpToQuote(_)
\* line 118: re.split(r'["`]', example)[0]
UpToQuote(x) ==
    IF x = <<>> THEN <<>>
    ELSE IF Head(x) \in {"\"", Backtick} THEN <<>>
    ELSE <<Head(x)>> \o UpToQuote(Tail(x))

RECURSIVE DropPrefixes(_, _)
\* lines 121-123: each prefix in turn, tried on what the earlier ones left
DropPrefixes(x, prefixes) ==
    IF prefixes = <<>> THEN x
    ELSE IF StartsWith(Lower(x), Head(prefixes))
    THEN DropPrefixes(From(x, Len(Head(prefixes))), Tail(prefixes))
    ELSE DropPrefixes(x, Tail(prefixes))

\* lines 117-124: the example with quotes, wake word and leading punctuation off
ExampleCore(x) ==
    Strip(DropPrefixes(UpToQuote(parse_whitespace(Strip(x, {" ", NL, "\"", "'", Backtick}))),
                       WakePrefixes),
          {" ", ","})

\* lines 125-129
LooksLikeQuestion(x) ==
    \E word \in QuestionWords, suffix \in QuestionSuffixes :
        StartsWith(Lower(x), word \o suffix \o <<" ">>)

parse_example(x) ==
    LET core == ExampleCore(x)
    IN  IF LooksLikeQuestion(core)
        THEN format_sent(RStrip(core, {"?", "."}) \o <<"?">>)
        ELSE format_sent(core)

-----------------------------------------------------------------------------
(* find_examples, lines 135-139 *)

Bullets == {"-", "*"}

\* the end of the line that holds position p: the first position from p on that
\* is the end of the string or has a newline after it (positions count the
\* characters before them: 0 is the start of x)
RECURSIVE EndOfLine(_, _)
EndOfLine(x, p) ==
    IF p >= Len(x) THEN Len(x)
    ELSE IF x[p + 1] = NL THEN p
    ELSE EndOfLine(x, p + 1)

RECURSIVE FindAllFrom(_, _)
\* re.findall(r'(?<=[-*]).*', x, re.MULTILINE) from position p on: a match
\* starts where the character before is a bullet and runs to the end of the
\* line; the search goes on where the match ended, one further on after an
\* empty match (an empty match may follow a non-empty one: Python 3.7 on)
FindAllFrom(x, p) ==
    IF p > Len(x) THEN <<>>
    ELSE IF p >= 1 /\ x[p] \in Bullets
    THEN LET e == EndOfLine(x, p)
         IN  <<SubSeq(x, p + 1, e)>>
             \o (IF e > p THEN FindAllFrom(x, e) ELSE FindAllFrom(x, p + 1))
    ELSE FindAllFrom(x, p + 1)

FindAll(x) == FindAllFrom(x, 0)

find_examples(d) ==
    FindAll(OrElse(find_secton(Str_examples, d, DefaultMinConf),
                   OrElse(find_secton(Str_usage, d, DefaultMinConf), <<>>)))

-----------------------------------------------------------------------------
(* The example extractor on the examples section of a README: a heading    *)
(* line and up to MaxExampleLines lines under it.                          *)

MaxExampleLines == 3

ExampleHeadings == { <<"#", " ">> \o <<"E","x","a","m","p","l","e","s">>,
                     <<"#", "#", " ">> \o Str_Usage }

ExampleLines ==
    { <<"-"," ","t","u","r","n"," ","o","n">>,
      <<"*"," ","a","-","b">>,
      <<"t","u","r","n","-","o","n"," ","t","v">>,
      <<"s","a","y"," ","h","i">>,
      <<"-">>,
      <<>> }

ExampleReadmes ==
    {JoinLines(<<h>> \o ls) : h \in ExampleHeadings,
                              ls \in LineSeqs(ExampleLines, MaxExampleLines)}

InitExamples ==
    /\ pc = "start"
    /\ readme_content \in ExampleReadmes
    /\ sections = <<>>
    /\ candidates = <<>>
    /\ skill_name = <<>> /\ title_info = None
    /\ fragment = <<>> /\ s = <<>> /\ applied = 0
    /\ name = <<>> /\ min_conf = <<0, 1>> /\ found = None
    /\ example = <<>> /\ utterance = None
    /\ skills = <<>> /\ idx = 0 /\ summaries = <<>>

\* generate_summary line 168, the call of find_examples
FindExamples ==
    /\ pc = "extracted"
    /\ candidates' = find_examples(sections)
    /\ pc' = "examples"
    /\ UNCHANGED <<wsVars, secVars, sections, resVars, example, utterance, mainVars>>

NextExamples == ExtractSections \/ FindExamples

SpecExamples == InitExamples /\ [][NextExamples]_vars

RECURSIVE BulletItems(_)
\* one item per bulleted line, in order: what follows the bullet that starts it
BulletItems(lines) ==
    IF lines = <<>> THEN <<>>
    ELSE IF Head(lines) # <<>> /\ Head(Head(lines)) \in Bullets
    THEN <<Tail(Head(lines))>> \o BulletItems(Tail(lines))
    ELSE BulletItems(Tail(lines))

\* C7: find_examples yields exactly one raw candidate per bulleted line of the
\* resolved examples body, in document order, and a line that does not start
\* with a bullet contributes none, whatever '-' or '*' it holds further on.
C7_OneCandidatePerBulletedLine ==
    pc = "examples" => candidates = BulletItems(SplitLines(sections[1].body))

-----------------------------------------------------------------------------
(* The example normalizer on raw candidates: a space, a wake word or none,  *)
(* a first word, a contraction suffix or none, and the rest.                *)

MaxRestWords == 1

ExampleWakes == { <<>>, <<"H","e","y"," ","M","y","c","r","o","f","t",","," ">> }
ExampleWords ==
    { <<"w","h","o">>, <<"W","h","a","t">>, <<"w","h","e","n">>,
      <<"w","h","e","r","e">>, <<"t","e","l","l">> }
ExampleSuffixes == QuestionSuffixes_seven
ExampleRests == { <<>>, <<"?">>, <<".">>, <<"?",".">> }

RECURSIVE RestWords(_)
\* " it", " it it", ...: at most n words
RestWords(n) ==
    IF n = 0 THEN {<<>>}
    ELSE RestWords(n - 1) \cup {<<" ", "i", "t">> \o w : w \in RestWords(n - 1)}

ExampleCandidates ==
    {<<" ">> \o wake \o word \o suffix \o words \o rest :
        wake \in ExampleWakes, word \in ExampleWords, suffix \in ExampleSuffixes,
        words \in RestWords(MaxRestWords), rest \in ExampleRests}

InitParseExample ==
    /\ pc = "start"
    /\ example \in ExampleCandidates
    /\ utterance = None
    /\ candidates = <<>>
    /\ readme_content = <<>> /\ sections = <<>>
    /\ skill_name = <<>> /\ title_info = None
    /\ fragment = <<>> /\ s = <<>> /\ applied = 0
    /\ name = <<>> /\ min_conf = <<0, 1>> /\ found = None
    /\ skills = <<>> /\ idx = 0 /\ summaries = <<>>

\* generate_summary line 168, one call of parse_example
ParseExample ==
    /\ pc = "start"
    /\ utterance' = Some(parse_example(example))
    /\ pc' = "parsed"
    /\ UNCHANGED <<wsVars, secVars, sections, resVars, candidates, example, mainVars>>

NextParseExample == ParseExample

SpecParseExample == InitParseExample /\ [][NextParseExample]_vars

\* a question word, one of the seven suffix forms, and a space
HasQuestionForm(x) ==
    \E word \in QuestionWords, suffix \in QuestionSuffixes_seven :
        StartsWith(Lower(x), word \o suffix \o <<" ">>)

\* C8: a candidate that, with wake word and leading punctuation off, begins
\* with who, what, when or where, then 's, s, 'd, d, 're, re or nothing, then
\* a space, is returned as a question: its trailing '?' and '.' removed and
\* exactly one '?' at its end, no period appended.
C8_QuestionGetsOneQuestionMark ==
    (pc = "parsed" /\ HasQuestionForm(ExampleCore(example)))
        => utterance = Some(caps(RStrip(ExampleCore(example), {"?", "."})) \o <<"?">>)

-----------------------------------------------------------------------------
(* generate_summary, lines 150-171.  What the GitHub API answers for a     *)
(* skill is part of the skill entry: remote is a README (decoded_content   *)
(* decodes to it), a GithubException raised by get_repo or get_readme, or  *)
(* a UnicodeDecodeError raised by decoded_content.decode().                 *)

RECURSIVE MapParseExample(_)
\* line 168: [parse_example(i) for i in ...]
MapParseExample(items) ==
    IF items = <<>> THEN <<>>
    ELSE <<parse_example(Head(items))>> \o MapParseExample(Tail(items))

\* line 167
DescriptionOf(d) ==
    format_sent(parse_whitespace(OrElse(find_secton(Str_description, d, DefaultMinConf), <<>>)))

\* lines 160-171, the record built from the decoded README
generate_summary(readme, skill_entry) ==
    LET d == extract_sections(readme)
        info == find_title_info(d, skill_entry.name)
    IN  [ repo |-> skill_entry.url,
          title |-> info[1],
          name |-> skill_entry.name,
          author |-> OrElse(find_secton(Str_author, d, DefaultMinConf),
                            caps(skill_entry.author)),
          github_username |-> skill_entry.author,
          short_desc |-> RStrip(format_sent(parse_whitespace(ReplaceChar(info[2], NL, SP))),
                                {"."}),
          description |-> DescriptionOf(d),
          examples |-> MapParseExample(find_examples(d)),
          requires |-> SplitWords(parse_whitespace(
                           OrElse(find_secton(Str_require, d, StrictMinConf), <<>>))),
          excludes |-> SplitWords(parse_whitespace(
                           OrElse(find_secton(Str_exclude, d, StrictMinConf), <<>>))) ]

-----------------------------------------------------------------------------
(* main, lines 184-207: the loop over the skill entries and the output.    *)

MaxSkills == 3

\* a README without any heading
Readme_plain ==
    <<"r","a","i","n","\n","a","n","d"," ","s","u","n">>

\* a README whose headings resolve no field but the examples
Readme_usage ==
    <<"#"," ","U","s","a","g","e","\n","-"," ","w","h","a","t","'","s"," ",
      "u","p","\n","#"," ","C","r","e","d","i","t","s","\n","A","l">>

\* a README with an author, a description and requirements
Readme_full ==
    <<"#"," ","A","u","t","h","o","r","\n","A","l","\n","#"," ","D","e","s",
      "c","r","i","p","t","i","o","n","\n","w","e","t","\n","d","a","y","s",
      "\n","#"," ","R","e","q","u","i","r","e","s","\n","n","e","t"," "," ",
      "g","p","s">>

Str_bob == <<"b","o","b">>
Str_url == <<"g","h">>

GithubException == [raises |-> "GithubException"]
UnicodeDecodeError == [raises |-> "UnicodeDecodeError"]
Decoded(readme) == [readme |-> readme]

\* the entries msm can list: name, url (empty when the skill has none), author
\* and the remote's answer
SkillEntries ==
    { [name |-> <<"n","e","w","s">>, url |-> <<>>, author |-> <<>>,
       remote |-> GithubException],
      [name |-> Str_weather_skill, url |-> Str_url, author |-> Str_bob,
       remote |-> Decoded(Readme_plain)],
      [name |-> Str_audio_record, url |-> Str_url, author |-> Str_bob,
       remote |-> Decoded(Readme_usage)],
      [name |-> <<"t","v">>, url |-> Str_url, author |-> Str_bob,
       remote |-> Decoded(Readme_full)],
      [name |-> <<"i","p">>, url |-> Str_url, author |-> Str_bob,
       remote |-> GithubException],
      [name |-> <<"j","o","k","e">>, url |-> Str_url, author |-> Str_bob,
       remote |-> UnicodeDecodeError] }

RECURSIVE SkillLists(_)
\* the lists of at most n skill entries
SkillLists(n) ==
    IF n = 0 THEN {<<>>}
    ELSE SkillLists(n - 1) \cup
         {Append(l, e) : l \in {x \in SkillLists(n - 1) : Len(x) = n - 1},
                         e \in SkillEntries}

Init ==
    /\ pc = "loop"
    /\ skills \in SkillLists(MaxSkills)
    /\ idx = 1
    /\ summaries = <<>>
    /\ readme_content = <<>> /\ sections = <<>>
    /\ skill_name = <<>> /\ title_info = None
    /\ fragment = <<>> /\ s = <<>> /\ applied = 0
    /\ name = <<>> /\ min_conf = <<0, 1>> /\ found = None
    /\ candidates = <<>> /\ example = <<>> /\ utterance = None

InLoop == pc = "loop" /\ idx <= Len(skills)

\* lines 191-192: an entry without url is passed over
SkipNoUrl ==
    /\ InLoop
    /\ skills[idx].url = <<>>
    /\ idx' = idx + 1
    /\ UNCHANGED <<pc, skills, summaries, wsVars, secVars, sections, resVars, exVars>>

\* lines 194-195 and 199: the summary is generated and stored under the name
StoreSummary ==
    /\ InLoop
    /\ skills[idx].url # <<>>
    /\ "readme" \in DOMAIN skills[idx].remote
    /\ summaries' = (skills[idx].name :>
                        generate_summary(skills[idx].remote.readme, skills[idx]))
                    @@ summaries
    /\ idx' = idx + 1
    /\ UNCHANGED <<pc, skills, wsVars, secVars, sections, resVars, exVars>>

\* lines 196-198: a GithubException is reported and the loop goes on
CatchGithubException ==
    /\ InLoop
    /\ skills[idx].url # <<>>
    /\ skills[idx].remote = GithubException
    /\ idx' = idx + 1
    /\ UNCHANGED <<pc, skills, summaries, wsVars, secVars, sections, resVars, exVars>>

\* lines 194-196: any other exception leaves the loop and main
Propagate ==
    /\ InLoop
    /\ skills[idx].url # <<>>
    /\ skills[idx].remote = UnicodeDecodeError
    /\ pc' = "aborted"
    /\ UNCHANGED <<idx, skills, summaries, wsVars, secVars, sections, resVars, exVars>>

\* lines 201-205: the summaries are written
Output ==
    /\ pc = "loop" /\ idx > Len(skills)
    /\ pc' = "output"
    /\ UNCHANGED <<idx, skills, summaries, wsVars, secVars, sections, resVars, exVars>>

Next == SkipNoUrl \/ StoreSummary \/ CatchGithubException \/ Propagate \/ Output

Spec == Init /\ [][Next]_vars

\* the entry of the list that is called key
EntryNamed(key) == CHOOSE e \in SkillEntries : e.name = key

\* the Section Map of an entry whose README could be decoded
SectionsOf(e) == extract_sections(e.remote.readme)

\* the resolver finds no heading of d at or above conf for field
NoHeadingClears(field, d, conf) ==
    \A i \in DOMAIN d : Less(compare(d[i].title, field), conf)

\* the README has no heading line
NoHeadings(e) == HeadingPositions(DocLines(e.remote.readme)) = {}

\* C6 as stated: author, description, requires and excludes of the record are
\* empty whenever the resolver finds no heading at or above the field's
\* threshold; the author of a README without headings is the empty string.
C6_UnresolvedFieldsEmpty ==
    \A key \in DOMAIN summaries :
        LET e == EntryNamed(key)
            d == SectionsOf(e)
        IN  /\ NoHeadingClears(Str_author, d, DefaultMinConf) => summaries[key].author = <<>>
            /\ NoHeadingClears(Str_description, d, DefaultMinConf)
                  => summaries[key].description = <<>>
            /\ NoHeadingClears(Str_require, d, StrictMinConf) => summaries[key].requires = <<>>
            /\ NoHeadingClears(Str_exclude, d, StrictMinConf) => summaries[key].excludes = <<>>
            /\ NoHeadings(e) => summaries[key].author = <<>>

\* C6 amended: description is the empty string and requires and excludes are
\* empty token sequences whenever the resolver finds no heading at or above
\* the field's threshold; author is then the skill entry's author (the GitHub
\* user name) with its first letter capitalized, not the empty string, also
\* for a README without headings.
C6_UnresolvedFieldsDefault ==
    \A key \in DOMAIN summaries :
        LET e == EntryNamed(key)
            d == SectionsOf(e)
        IN  /\ NoHeadingClears(Str_author, d, DefaultMinConf)
                  => summaries[key].author = caps(e.author)
            /\ NoHeadingClears(Str_description, d, DefaultMinConf)
                  => summaries[key].description = <<>>
            /\ NoHeadingClears(Str_require, d, StrictMinConf) => summaries[key].requires = <<>>
            /\ NoHeadingClears(Str_exclude, d, StrictMinConf) => summaries[key].excludes = <<>>
            /\ NoHeadings(e) => summaries[key].author = caps(e.author)

\* the record of a README without headings: every field at its default, the
\* author the capitalized user name
C6_Witness ==
    \E key \in DOMAIN summaries :
        /\ NoHeadings(EntryNamed(key))
        /\ NoHeadingClears(Str_description, SectionsOf(EntryNamed(key)), DefaultMinConf)
        /\ summaries[key].author = <<"B", "o", "b">>
        /\ summaries[key].description = <<>>
        /\ summaries[key].requires = <<>> /\ summaries[key].excludes = <<>>

\* the entries before position i that have a url and a README that decodes
Succeeded(i) ==
    {skills[k].name : k \in {j \in 1..(i - 1) :
        skills[j].url # <<>> /\ "readme" \in DOMAIN skills[j].remote}}

\* C9: a failure while generating the summary of one entry, whatever its kind,
\* never aborts the processing of the rest: main never leaves the loop before
\* the last entry, and at the output step summaries holds exactly the entries
\* whose summary generation succeeded.
C9_FailureNeverAborts ==
    /\ pc # "aborted"
    /\ pc = "output" => (idx = Len(skills) + 1 /\ DOMAIN summaries = Succeeded(idx))

====
